---------------------------- MODULE Spec2Model ----------------------------
(***************************************************************************)
(* Model of src-tauri/src/main.rs: the native entry point of the desktop   *)
(* shell.  The process is started with a list of OS command-line arguments;*)
(* the setup closure reads them, filters the supported document files and  *)
(* spawns one thread that sleeps 2000 ms and then emits "tauri://file-args";*)
(* the frontend may invoke get_command_line_args while the app runs.       *)
(*                                                                         *)
(* A path is a sequence of one-character strings, so that to_lowercase and *)
(* ends_with are computed character by character.  The character BadUnit   *)
(* stands for a code unit that is not valid Unicode (a lone surrogate on   *)
(* Windows, a stray byte on Unix): env::args() panics on such an argument. *)
(***************************************************************************)
EXTENDS Integers, Sequences, FiniteSets, TLC

VARIABLES
    osArgs,          \* the process's command line, index 1 = executable path
    mainPc,          \* "init" | "running" | "exited" | "panicked"
    setupResult,     \* "none" | "Ok" : what the setup closure returned
    supported_files, \* the filtered list computed by setup
    threads,         \* the spawned background threads, in spawn order
    events,          \* events emitted to the frontend, in order
    now,             \* wall clock, in ms
    frontendReady,   \* the webview's script has registered its listener
    invokeCount,     \* number of get_command_line_args invocations so far
    lastReturn       \* what the last invocation returned

vars == <<osArgs, mainPc, setupResult, supported_files, threads, events,
          now, frontendReady, invokeCount, lastReturn>>

---------------------------------------------------------------------------
(* Bounds of the model *)

MaxArgs == 3

MaxInvokes == 2

TickMs == 1000

MaxTime == 4000

(* Program constant: Duration::from_millis(2000) *)
DelayMs == 2000

---------------------------------------------------------------------------
(* Strings *)

BadUnit == "?invalid?"

UpperCase == <<"A","B","C","D","E","F","G","H","I","J","K","L","M",
               "N","O","P","Q","R","S","T","U","V","W","X","Y","Z">>

LowerCase == <<"a","b","c","d","e","f","g","h","i","j","k","l","m",
               "n","o","p","q","r","s","t","u","v","w","x","y","z">>

\* char::to_lowercase on the model's alphabet
LowerChar(c) ==
    IF \E i \in DOMAIN UpperCase : UpperCase[i] = c
    THEN LowerCase[CHOOSE i \in DOMAIN UpperCase : UpperCase[i] = c]
    ELSE c

\* str::to_lowercase
ToLowercase(s) == [i \in DOMAIN s |-> LowerChar(s[i])]

\* str::ends_with
EndsWith(s, suffix) ==
    /\ Len(s) >= Len(suffix)
    /\ SubSeq(s, Len(s) - Len(suffix) + 1, Len(s)) = suffix

ExtMd == <<".", "m", "d">>

ExtMarkdown == <<".", "m", "a", "r", "k", "d", "o", "w", "n">>

ExtTxt == <<".", "t", "x", "t">>

\* The command-line words the model draws the arguments from.
Paths ==
    { <<"a", "p", "p">>,
      <<"A", ".", "M", "D">>,
      <<"a", ".", "m", "d">>,
      <<"b", ".", "T", "x", "T">>,
      <<"n", ".", "M", "a", "r", "k", "d", "o", "w", "n">>,
      <<"c", ".", "m", "d", "x">>,
      <<".", "t", "x", "t">>,
      <<BadUnit, ".", "m", "d">> }

RECURSIVE ArgLists(_)
ArgLists(n) ==
    IF n = 0 THEN {<<>>}
    ELSE LET shorter == ArgLists(n - 1)
         IN  shorter \cup {Append(a, p) : a \in {b \in shorter : Len(b) = n - 1}, p \in Paths}

---------------------------------------------------------------------------
(* The argument reader *)

IsValidUnicode(arg) == \A i \in DOMAIN arg : arg[i] # BadUnit

\* env::args() panics during iteration on an argument that is not Unicode.
ArgsPanics(os) == \E i \in DOMAIN os : ~IsValidUnicode(os[i])

\* env::args().collect(): the arguments as Strings, or a panic.
EnvArgs(os) == IF ArgsPanics(os) THEN "panic" ELSE os

---------------------------------------------------------------------------
(* The setup closure's pieces *)

FileArgsWhole(args) == args

\* if args.len() > 1 { args[1..].to_vec() }
FileArgs(args) ==
    IF Len(args) > 1 THEN SubSeq(args, 2, Len(args)) ELSE <<>>

IsSupportedCaseSensitive(path) ==
    \/ EndsWith(path, ExtMd)
    \/ EndsWith(path, ExtMarkdown)
    \/ EndsWith(path, ExtTxt)

IsSupportedPrefixOk(path) ==
    LET lower_path == ToLowercase(path)
    IN  \E k \in 1..Len(lower_path) :
            \/ EndsWith(SubSeq(lower_path, 1, k), ExtMd)
            \/ EndsWith(SubSeq(lower_path, 1, k), ExtMarkdown)
            \/ EndsWith(SubSeq(lower_path, 1, k), ExtTxt)

\* the filter closure
IsSupported(path) ==
    LET lower_path == ToLowercase(path)
    IN  \/ EndsWith(lower_path, ExtMd)
        \/ EndsWith(lower_path, ExtMarkdown)
        \/ EndsWith(lower_path, ExtTxt)

\* file_args.into_iter().filter(..).collect()
SupportedFiles(args) == SelectSeq(FileArgs(args), IsSupported)

FilePathLowered(supported) == ToLowercase(supported[1])

\* supported_files[0].clone()
FilePath(supported) == supported[1]

EventName == "tauri://file-args"

NewThreadsPerFile(supported, t) ==
    [i \in DOMAIN supported |->
        [pc |-> "sleep", file_path |-> supported[i], spawnedAt |-> t]]

\* if !supported_files.is_empty() { ... std::thread::spawn(..) }
NewThreads(supported, t) ==
    IF supported # <<>>
    THEN << [pc |-> "sleep", file_path |-> FilePath(supported), spawnedAt |-> t] >>
    ELSE <<>>

SleepNotWaited(th, t) == TRUE

\* std::thread::sleep(Duration::from_millis(2000)) has returned
SleepElapsed(th, t) == t >= th.spawnedAt + DelayMs

---------------------------------------------------------------------------
(* The state machine *)

Init ==
    /\ osArgs \in {a \in ArgLists(MaxArgs) : Len(a) >= 1}
    /\ mainPc = "init"
    /\ setupResult = "none"
    /\ supported_files = <<>>
    /\ threads = <<>>
    /\ events = <<>>
    /\ now = 0
    /\ frontendReady = FALSE
    /\ invokeCount = 0
    /\ lastReturn = <<>>

\* .setup(|app| { ... Ok(()) }) followed by the start of the event loop
Setup ==
    /\ mainPc = "init"
    /\ ~ArgsPanics(osArgs)
    /\ LET args == EnvArgs(osArgs)
       IN  /\ supported_files' = SupportedFiles(args)
           /\ threads' = NewThreads(SupportedFiles(args), now)
    /\ setupResult' = "Ok"
    /\ mainPc' = "running"
    /\ UNCHANGED <<osArgs, events, now, frontendReady, invokeCount, lastReturn>>

\* env::args().collect() in setup panics: the process dies in setup
SetupPanic ==
    /\ mainPc = "init"
    /\ ArgsPanics(osArgs)
    /\ mainPc' = "panicked"
    /\ UNCHANGED <<osArgs, setupResult, supported_files, threads, events, now,
                   frontendReady, invokeCount, lastReturn>>

\* the thread wakes up and app_handle.emit(..) returns Ok
EmitOk(i) ==
    /\ mainPc = "running"
    /\ threads[i].pc = "sleep"
    /\ SleepElapsed(threads[i], now)
    /\ events' = Append(events, [name |-> EventName,
                                 payload |-> threads[i].file_path,
                                 at |-> now,
                                 received |-> frontendReady])
    /\ threads' = [threads EXCEPT ![i].pc = "done"]
    /\ UNCHANGED <<osArgs, mainPc, setupResult, supported_files, now,
                   frontendReady, invokeCount, lastReturn>>

\* the thread wakes up and app_handle.emit(..) returns Err: let _result = ..
EmitErr(i) ==
    /\ mainPc = "running"
    /\ threads[i].pc = "sleep"
    /\ SleepElapsed(threads[i], now)
    /\ threads' = [threads EXCEPT ![i].pc = "failed"]
    /\ UNCHANGED <<osArgs, mainPc, setupResult, supported_files, events, now,
                   frontendReady, invokeCount, lastReturn>>

GetArgsWithoutExe == FileArgs(EnvArgs(osArgs))

\* #[tauri::command] fn get_command_line_args() -> Vec<String>
get_command_line_args == EnvArgs(osArgs)

\* the frontend invokes the command
InvokeGetArgs ==
    /\ mainPc = "running"
    /\ invokeCount < MaxInvokes
    /\ invokeCount' = invokeCount + 1
    /\ lastReturn' = get_command_line_args
    /\ UNCHANGED <<osArgs, mainPc, setupResult, supported_files, threads,
                   events, now, frontendReady>>

\* the webview finishes loading and its script starts listening
FrontendBecomesReady ==
    /\ mainPc = "running"
    /\ ~frontendReady
    /\ frontendReady' = TRUE
    /\ UNCHANGED <<osArgs, mainPc, setupResult, supported_files, threads,
                   events, now, invokeCount, lastReturn>>

\* .run(..) returns (the last window is closed): the process ends
Exit ==
    /\ mainPc = "running"
    /\ mainPc' = "exited"
    /\ UNCHANGED <<osArgs, setupResult, supported_files, threads, events, now,
                   frontendReady, invokeCount, lastReturn>>

\* time passes
Tick ==
    /\ mainPc \in {"init", "running"}
    /\ now + TickMs <= MaxTime
    /\ now' = now + TickMs
    /\ UNCHANGED <<osArgs, mainPc, setupResult, supported_files, threads,
                   events, frontendReady, invokeCount, lastReturn>>

Next ==
    \/ Setup
    \/ SetupPanic
    \/ \E i \in DOMAIN threads : EmitOk(i)
    \/ \E i \in DOMAIN threads : EmitErr(i)
    \/ InvokeGetArgs
    \/ FrontendBecomesReady
    \/ Exit
    \/ Tick

Spec == Init /\ [][Next]_vars

---------------------------------------------------------------------------
(* Vocabulary of the claims, stated without the setup closure's operators *)

\* the lowercased form of p ends with ext
LoweredEndsWith(p, ext) ==
    /\ Len(p) >= Len(ext)
    /\ \A j \in 1..Len(ext) : LowerChar(p[Len(p) - Len(ext) + j]) = ext[j]

SupportedSuffix(p) ==
    \/ LoweredEndsWith(p, ExtMd)
    \/ LoweredEndsWith(p, ExtMarkdown)
    \/ LoweredEndsWith(p, ExtTxt)

\* positions after the executable path that hold a supported file
SupportedPositions == {i \in 2..Len(osArgs) : SupportedSuffix(osArgs[i])}

FirstSupportedPosition ==
    CHOOSE i \in SupportedPositions : \A j \in SupportedPositions : i <= j

\* the subsequence of args[1..] that passes the suffix test
SupportedSubsequence == SelectSeq(Tail(osArgs), SupportedSuffix)

SetupIsOver == mainPc # "init"

\* the thread that emitted the k-th event
EmitterOf(k) ==
    {i \in DOMAIN threads :
        /\ threads[i].pc = "done"
        /\ threads[i].file_path = events[k].payload
        /\ events[k].at >= threads[i].spawnedAt + DelayMs}

---------------------------------------------------------------------------
(* C1: once setup is over, if some argument after the executable path is a *)
(* supported file, one thread has been spawned that carries the first      *)
(* supported argument in its original spelling, and every event it emits   *)
(* is "tauri://file-args" with that payload, 2000 ms or more after the     *)
(* spawn.  The code violates this: env::args() panics in setup when any    *)
(* argument is not valid Unicode, and then no thread is spawned.           *)
StartupEmitsFirstSupported ==
    (SetupIsOver /\ \E i \in SupportedPositions : IsValidUnicode(osArgs[i]))
        => /\ Len(threads) = 1
           /\ threads[1].file_path = osArgs[FirstSupportedPosition]
           /\ \A k \in DOMAIN events :
                 /\ events[k].name = "tauri://file-args"
                 /\ events[k].payload = osArgs[FirstSupportedPosition]
                 /\ events[k].at >= threads[1].spawnedAt + 2000

(* C2: the filtered list computed by setup is exactly the subsequence of   *)
(* args[1..] whose lowercased form ends with ".md", ".markdown" or ".txt", *)
(* in the original order and spelling.                                     *)
FilterIsLoweredSuffixTest ==
    setupResult = "Ok" => supported_files = SupportedSubsequence

FilterKeepsMixedCase ==
    /\ setupResult = "Ok"
    /\ Len(osArgs) = 3
    /\ Len(supported_files) = 1
    /\ supported_files[1] # ToLowercase(supported_files[1])

(* C3: with no argument after the executable path, or none of them a       *)
(* supported file, no thread is ever spawned and no event is ever emitted. *)
NoSupportedFileNoEmission ==
    SupportedPositions = {} => (threads = <<>> /\ events = <<>>)

UnsupportedArgsDelayPassed ==
    /\ setupResult = "Ok"
    /\ Len(osArgs) > 1
    /\ SupportedPositions = {}
    /\ now >= DelayMs
    /\ threads = <<>>

(* C4: every invocation of get_command_line_args returns the whole         *)
(* argument list, executable path included, and changes nothing else.      *)
GetArgsReturnsAllAndChangesNothing ==
    [][invokeCount' # invokeCount =>
         /\ lastReturn' = osArgs
         /\ UNCHANGED <<osArgs, mainPc, setupResult, supported_files,
                        threads, events, now, frontendReady>>]_vars

GetArgsInvokedAroundEmission ==
    /\ invokeCount = MaxInvokes
    /\ events # <<>>
    /\ Len(lastReturn) > 1
    /\ lastReturn[1] = osArgs[1]

(* C5: an emitted file-args event always finds the frontend listening.     *)
(* The code violates this: the thread waits a fixed 2000 ms and never      *)
(* checks that the frontend has become ready.                              *)
EmittedOnlyToReadyFrontend ==
    \A k \in DOMAIN events : events[k].received

(* C6: at most one thread is spawned and at most one event is emitted, and *)
(* the event carries the first supported file, never a later one.          *)
AtMostOneThreadOneEvent ==
    /\ Len(threads) <= 1
    /\ Len(events) <= 1
    /\ \A k \in DOMAIN events :
           events[k].payload = osArgs[FirstSupportedPosition]

TwoSupportedOneEmitted ==
    /\ Cardinality(SupportedPositions) >= 2
    /\ \E i \in SupportedPositions : osArgs[i] # osArgs[FirstSupportedPosition]
    /\ Len(events) = 1

(* C7: the executable path is never taken as a file: it occurs in the      *)
(* filtered list, and as a payload, only as often as the same word occurs  *)
(* among the later arguments.                                              *)
ExecutablePathNeverAFile ==
    LET exe == osArgs[1]
        later == {i \in 2..Len(osArgs) : osArgs[i] = exe}
    IN  /\ Cardinality({i \in DOMAIN supported_files : supported_files[i] = exe})
               <= Cardinality(later)
        /\ \A i \in DOMAIN threads : threads[i].file_path = exe => later # {}
        /\ \A k \in DOMAIN events : events[k].payload = exe => later # {}

SupportedExecutablePathSkipped ==
    /\ SupportedSuffix(osArgs[1])
    /\ setupResult = "Ok"
    /\ events # <<>>
    /\ events[1].payload # osArgs[1]

(* C8: setup returns Ok for every argument list, and a failed emission     *)
(* leaves the application running with no event and no retry.  The code    *)
(* violates the first part: env::args() panics in setup when an argument   *)
(* is not valid Unicode.                                                   *)
SetupAlwaysOkEmitFailureDiscarded ==
    /\ SetupIsOver => setupResult = "Ok"
    /\ \A i \in DOMAIN threads :
           threads[i].pc = "failed" => (mainPc \in {"running", "exited"} /\ events = <<>>)

(* C9: setup returns Ok without waiting: the step that ends setup takes no *)
(* time, emits nothing and leaves the thread asleep; and every event is    *)
(* emitted 2000 ms or more after its thread was spawned.                   *)
SetupDoesNotWaitEmissionDoes ==
    /\ [][(mainPc = "init" /\ mainPc' = "running") =>
             /\ setupResult' = "Ok"
             /\ now' = now
             /\ events' = <<>>
             /\ \A i \in DOMAIN threads' : threads'[i].pc = "sleep"]_vars
    /\ [](\A k \in DOMAIN events : EmitterOf(k) # {})

EmittedRightAfterDelay ==
    /\ Len(events) = 1
    /\ threads[1].spawnedAt > 0
    /\ events[1].at = threads[1].spawnedAt + DelayMs

(* C10: the payload of every event, captured by the thread before the      *)
(* delay, is an element at index 1 or more (0-based) of the process's      *)
(* arguments and of the list get_command_line_args returned.               *)
PayloadIsALaterArgument ==
    /\ \A i \in DOMAIN threads :
           \E j \in 2..Len(osArgs) : osArgs[j] = threads[i].file_path
    /\ \A k \in DOMAIN events :
           /\ \E j \in 2..Len(osArgs) : osArgs[j] = events[k].payload
           /\ invokeCount > 0 =>
                 \E j \in 2..Len(lastReturn) : lastReturn[j] = events[k].payload

MixedCasePayloadAndArgsRead ==
    /\ events # <<>>
    /\ invokeCount > 0
    /\ events[1].payload # ToLowercase(events[1].payload)

=============================================================================
